---------------------------- MODULE Spec2Model ----------------------------
(***************************************************************************)
(* A model of the RISC-V emulator: the decode/execute engine of src/vm.rs  *)
(* (interpret_bytes, ArchState::apply, tick, load) and the execution       *)
(* harness of src/main.rs and src/ui.rs (execution thread, observer loop,  *)
(* the pause, step and quit channels and the mutex around ArchState).      *)
(*                                                                         *)
(* Representation of 32-bit values.  A u32/i32 bit pattern is modelled by  *)
(* the integer its two's-complement (i32) reading denotes, in              *)
(* MinI32..MaxI32.  The u32 reading of a pattern p is p when p >= 0 and    *)
(* p + 2^32 otherwise; operations on the u32 reading (comparison, logical  *)
(* shift, zero-extension to usize) are defined by case on the sign.        *)
(***************************************************************************)
EXTENDS Integers, Sequences, FiniteSets, TLC

\* ------------------------------------------------------------------------
\* Bounds of the model
\* ------------------------------------------------------------------------

\* capacity handed to ArchState::with_mem in the model (the code's new() uses 2^16)
MemCap == 16

\* Right-arrow (step) key presses the observer makes while it shows Paused
MaxSteps == 2

\* space (pause toggle) key presses the observer makes
MaxToggles == 2

\* operations (load, set_register, apply, tick) in one run of the machine alone
MaxOps == 2

\* ------------------------------------------------------------------------
\* 32-bit patterns
\* ------------------------------------------------------------------------

MaxI32 == 2147483647
MinI32 == (-MaxI32) - 1

Pow2(n) == 2 ^ n

\* the pattern of the u32 whose 16-bit halves are hi and lo
U32(hi, lo) == ((IF hi >= 32768 THEN hi - 65536 ELSE hi) * 65536) + lo

\* std::mem::transmute between u32 and i32 keeps the bit pattern
transmute_to_signed(unsigned) == unsigned

transmute_to_unsigned(signed) == signed

\* bit i (0..31) of a pattern
Bit(x, i) == IF i = 31 THEN (IF x < 0 THEN 1 ELSE 0) ELSE (x \div Pow2(i)) % 2

RECURSIVE BitAnd(_, _)
BitAnd(a, b) ==
    IF a = 0 \/ b = 0 THEN 0
    ELSE IF a = -1 THEN b
    ELSE IF b = -1 THEN a
    ELSE (2 * BitAnd(a \div 2, b \div 2)) + ((a % 2) * (b % 2))

RECURSIVE BitOr(_, _)
BitOr(a, b) ==
    IF a = 0 THEN b
    ELSE IF b = 0 THEN a
    ELSE IF a = -1 \/ b = -1 THEN -1
    ELSE (2 * BitOr(a \div 2, b \div 2)) + (IF (a % 2) + (b % 2) > 0 THEN 1 ELSE 0)

RECURSIVE BitXor(_, _)
BitXor(a, b) ==
    IF a = 0 THEN b
    ELSE IF b = 0 THEN a
    ELSE IF a = -1 /\ b = -1 THEN 0
    ELSE (2 * BitXor(a \div 2, b \div 2)) + (((a % 2) + (b % 2)) % 2)

\* u32 `<`
LtU(a, b) == IF (a < 0) = (b < 0) THEN a < b ELSE b < 0

\* u32 `>>` by n in 0..31 (zeros shifted in)
Shr(x, n) ==
    IF n = 0 THEN x
    ELSE IF x >= 0 THEN (IF n = 31 THEN 0 ELSE x \div Pow2(n))
    ELSE IF n = 31 THEN 1
    ELSE ((x \div Pow2(n)) + Pow2(31 - n)) + Pow2(31 - n)

\* a right shift of the i32 that shifts zeros in
Sar_zero_fill(x, n) == Shr(x, n)

\* i32 `>>` by n in 0..31 (copies of bit 31 shifted in)
Sar(x, n) == IF n = 31 THEN (IF x < 0 THEN -1 ELSE 0) ELSE x \div Pow2(n)

\* u32 `<<` by n in 0..31: bits 0..31-n move up by n, the bits above are lost
Shl(x, n) ==
    IF n = 0 THEN x
    ELSE IF n = 31 THEN (IF x % 2 = 1 THEN MinI32 ELSE 0)
    ELSE ((x % Pow2(31 - n)) * Pow2(n))
           + (IF (x \div Pow2(31 - n)) % 2 = 1 THEN MinI32 ELSE 0)

\* u32 `<<` by one
Shl1(x) == Shl(x, 1)

\* a + b of the readings would leave MinI32..MaxI32
AddOverflowsI32(a, b) ==
    \/ a > 0 /\ b > 0 /\ a > MaxI32 - b
    \/ a < 0 /\ b < 0 /\ a < MinI32 - b

\* addition modulo 2^32 (the same pattern for the u32 and the i32 reading)
AddWrap(a, b) ==
    IF a > 0 /\ b > 0 /\ a > MaxI32 - b THEN (a + MinI32) + (b + MinI32)
    ELSE IF a < 0 /\ b < 0 /\ a < MinI32 - b THEN (a - MinI32) + (b - MinI32)
    ELSE a + b

\* the u32 readings' sum is 2^32 or more
AddOverflowsU32(a, b) ==
    \/ a < 0 /\ b < 0
    \/ (a < 0) # (b < 0) /\ a + b >= 0

\* subtraction modulo 2^32
SubWrap(a, b) ==
    IF a >= 0 /\ b < 0 /\ a > MaxI32 + b THEN (a + MinI32) - (b - MinI32)
    ELSE IF a < 0 /\ b > 0 /\ a < MinI32 + b THEN (a - MinI32) - (b + MinI32)
    ELSE a - b

\* a - b of the i32 readings would leave MinI32..MaxI32
SubOverflowsI32(a, b) ==
    \/ a >= 0 /\ b < 0 /\ a > MaxI32 + b
    \/ a < 0 /\ b > 0 /\ a < MinI32 + b

\* `as u8` of a pattern
AsU8(x) == x % 256


\* ------------------------------------------------------------------------
\* Immediates (vm.rs 72-124)
\* ------------------------------------------------------------------------

\* SmallImmediate::sign_extend: `self.val & 1 << 11 == 1` parses as
\* (self.val & (1 << 11)) == 1
sign_extend_small(val) ==
    LET msb == BitAnd(val, Shl(1, 11)) = 1
    IN  transmute_to_signed(IF msb THEN AddWrap(val, U32(65535, 61440)) ELSE val)

\* BigImmediate::sign_extend: the same body as for the 12-bit immediate
sign_extend_big(val) ==
    LET msb == BitAnd(val, Shl(1, 11)) = 1
    IN  transmute_to_signed(IF msb THEN AddWrap(val, U32(65535, 61440)) ELSE val)

\* ------------------------------------------------------------------------
\* Instructions and the decoder (vm.rs 126-384)
\* ------------------------------------------------------------------------

\* One record shape for the six formats R, I, S, U, B, J: a field a format does
\* not have is 0.  imm is the immediate's val (a u32 pattern).
Inst(op, rd, rs1, rs2, imm) ==
    [op |-> op, rd |-> rd, rs1 |-> rs1, rs2 |-> rs2, imm |-> imm]

nop == Inst("ADDI", 0, 0, 0, 0)

\* the R-type arm of interpret_bytes; the match patterns 0000, 1000, 0001, ...
\* are decimal literals
decode_R(bytes, func3) ==
    LET rd  == BitAnd(AsU8(Shr(bytes, 7)), 31)
        rs1 == BitAnd(AsU8(Shr(bytes, 15)), 31)
        rs2 == BitAnd(AsU8(Shr(bytes, 20)), 31)
        sel == func3 + Shr(bytes, 27)
        data(op) == Inst(op, rd, rs1, rs2, 0)
    IN  CASE sel = 0 -> data("ADD")
          [] sel = 1000 -> data("SUB")
          [] sel \in {1, 1001} -> data("SLL")
          [] sel \in {10, 1010} -> data("SLT")
          [] sel \in {11, 1011} -> data("SLTU")
          [] sel \in {100, 1100} -> data("XOR")
          [] sel = 101 -> data("SRL")
          [] sel = 1101 -> data("SRA")
          [] sel \in {110, 1110} -> data("OR")
          [] sel \in {111, 1111} -> data("AND")
          [] OTHER -> nop

\* the I-type ALU arm; the match patterns 000, 010, 011, 100, ... are decimal
decode_IALU(bytes, func3) ==
    LET rd  == BitAnd(AsU8(Shr(bytes, 7)), 31)
        rs1 == BitAnd(AsU8(Shr(bytes, 15)), 31)
        imm == Shr(bytes, 20)
        data(op) == Inst(op, rd, rs1, 0, imm)
    IN  CASE func3 = 0 -> data("ADDI")
          [] func3 = 10 -> data("SLTI")
          [] func3 = 11 -> data("SLTUI")
          [] func3 = 100 -> data("XORI")
          [] func3 = 110 -> data("ORI")
          [] func3 = 111 -> data("ANDI")
          [] func3 = 1 -> data("SLLI")
          [] func3 = 101 ->
                IF BitAnd(bytes, Pow2(30)) = 0 THEN data("SRLI") ELSE data("SRAI")
          [] OTHER -> nop

\* the store arm; `(bytes >> 7) & 0b11111 + (bytes >> 24)` parses as
\* (bytes >> 7) & (0b11111 + (bytes >> 24))
decode_S(bytes, func3) ==
    LET rs1 == BitAnd(AsU8(Shr(bytes, 15)), 31)
        rs2 == BitAnd(AsU8(Shr(bytes, 20)), 31)
        imm == BitAnd(Shr(bytes, 7), 31 + Shr(bytes, 24))
        data(op) == Inst(op, 0, rs1, rs2, imm)
    IN  CASE func3 = 0 -> data("SB")
          [] func3 = 1 -> data("SH")
          [] func3 = 10 -> data("SW")
          [] OTHER -> nop

\* the load arm
decode_L(bytes, func3) ==
    LET rd  == BitAnd(AsU8(Shr(bytes, 7)), 31)
        rs1 == BitAnd(AsU8(Shr(bytes, 15)), 31)
        imm == Shr(bytes, 20)
        data(op) == Inst(op, rd, rs1, 0, imm)
    IN  CASE func3 = 0 -> data("LB")
          [] func3 = 1 -> data("LH")
          [] func3 = 10 -> data("LW")
          [] func3 = 100 -> data("LBU")
          [] func3 = 101 -> data("LHU")
          [] OTHER -> nop

\* the branch arm; `bytes & 2_u32.pow(31) >> (31 - 12)` parses as
\* bytes & (2^31 >> 19) = bytes & 4096
decode_B(bytes, func3) ==
    LET rs1 == BitAnd(AsU8(Shr(bytes, 15)), 31)
        rs2 == BitAnd(AsU8(Shr(bytes, 20)), 31)
        imm == (BitAnd(BitAnd(Shr(bytes, 7), 31 + Shr(bytes, 24)), 4092)
                  + Shl(BitAnd(bytes, 128), 11 - 7))
                  + BitAnd(bytes, Shr(MinI32, 31 - 12))
        data(op) == Inst(op, 0, rs1, rs2, imm)
    IN  CASE func3 = 0 -> data("BEQ")
          [] func3 = 1 -> data("BNE")
          [] func3 = 100 -> data("BLT")
          [] func3 = 101 -> data("BGE")
          [] func3 = 110 -> data("BLTU")
          [] func3 = 111 -> data("BGEU")
          [] OTHER -> nop

\* the JAL arm
decode_J(bytes) ==
    Inst("JAL", BitAnd(AsU8(Shr(bytes, 7)), 31), 0, 0,
         ((BitAnd(Shr(bytes, 20), 1023)
            + Shl(BitAnd(Shr(bytes, 20), 1), 10))
            + Shl(BitAnd(Shr(bytes, 12), 255), 11))
            + Shl(BitAnd(Shr(bytes, 30), 1), 19))

\* the JALR arm: rd and rs1 are `as u8` without the 5-bit mask
decode_JALR(bytes) ==
    Inst("JALR", AsU8(Shr(bytes, 7)), AsU8(Shr(bytes, 15)), 0, Shr(bytes, 20))

\* the LUI and AUIPC arms
decode_U(op, bytes) ==
    Inst(op, BitAnd(AsU8(Shr(bytes, 7)), 31), 0, 0, Shr(bytes, 12))

\* the opcode taken from the low 6 bits only
interpret_bytes_mask6(bytes) ==
    LET opcode == BitAnd(bytes, 63)
        func3  == Shr(BitAnd(bytes, Shl(7, 11)), 11)
    IN  CASE opcode = 51 -> decode_R(bytes, func3)
          [] opcode = 19 -> decode_IALU(bytes, func3)
          [] opcode = 35 -> decode_S(bytes, func3)
          [] opcode = 3 -> decode_L(bytes, func3)
          [] opcode = 103 -> decode_JALR(bytes)
          [] opcode = 99 -> decode_B(bytes, func3)
          [] opcode = 111 -> decode_J(bytes)
          [] opcode = 55 -> decode_U("LUI", bytes)
          [] opcode = 23 -> decode_U("AUIPC", bytes)
          [] OTHER -> nop

interpret_bytes(bytes) ==
    LET opcode == BitAnd(bytes, 127)
        func3  == Shr(BitAnd(bytes, Shl(7, 11)), 11)
    IN  CASE opcode = 51 -> decode_R(bytes, func3)
          [] opcode = 19 -> decode_IALU(bytes, func3)
          [] opcode = 35 -> decode_S(bytes, func3)
          [] opcode = 3 -> decode_L(bytes, func3)
          [] opcode = 103 -> decode_JALR(bytes)
          [] opcode = 99 -> decode_B(bytes, func3)
          [] opcode = 111 -> decode_J(bytes)
          [] opcode = 55 -> decode_U("LUI", bytes)
          [] opcode = 23 -> decode_U("AUIPC", bytes)
          [] OTHER -> nop

\* ------------------------------------------------------------------------
\* ArchState (vm.rs 213-217, 386-417)
\* ------------------------------------------------------------------------

\* An ArchState value: regs[i] is the backing slot of register i (regs[i-1] in
\* the code), pc the i64 program counter, mem the byte vector (index from 0).
\* panicked records that the call that produced this value unwound with a
\* panic; the other fields then hold what had been written before it.
with_mem(cap) ==
    [regs |-> [i \in 1..31 |-> 0],
     pc |-> 0,
     mem |-> [i \in 0..(cap - 1) |-> 0],
     panicked |-> FALSE]

Capacity(st) == Cardinality(DOMAIN st.mem)

Panic(st) == [st EXCEPT !.panicked = TRUE]

\* `self.regs[reg - 1]` is inside the array
RegInRange(reg) == reg <= 31

get_register(st, reg) == IF reg = 0 THEN 0 ELSE st.regs[reg]

set_register_off_by_one(st, index, val) ==
    IF index + 1 \in 1..31 THEN [st EXCEPT !.regs[index + 1] = val] ELSE st

set_register(st, index, val) ==
    IF index = 0 THEN st
    ELSE IF index \in 1..31 THEN [st EXCEPT !.regs[index] = val]
    ELSE st

\* load: the for_each writes program[i - offset] to mem[i] for i from offset
\* upwards and panics at the first index outside mem; k bytes are done
RECURSIVE load_from(_, _, _, _)
load_from(st, program, offset, k) ==
    IF k >= Len(program) THEN st
    ELSE IF offset + k >= Capacity(st) THEN Panic(st)
    ELSE load_from([st EXCEPT !.mem[offset + k] = program[k + 1]],
                   program, offset, k + 1)

load_shifted(st, program, offset) == load_from(st, program, offset + 1, 0)

load(st, program, offset) == load_from(st, program, offset, 0)

\* ------------------------------------------------------------------------
\* ArchState::apply (vm.rs 419-730)
\* ------------------------------------------------------------------------
\* chk is the build's overflow-checks setting: with it `+ - * << >>` panic on
\* overflow (the debug profile), without it they wrap (the release profile).

\* the trailing `self.pc += 4`
advance(st) == [st EXCEPT !.pc = @ + 4]

\* a shift amount a checked `<<` or `>>` on a 32-bit value rejects
ShiftTooFar(n) == n < 0 \/ n >= 32

\* the amount an unchecked shift uses
ShiftAmount(n) == n % 32

\* `pc as u32`; the model keeps pc within MinI32..MaxI32, where the cast keeps
\* the two's-complement pattern
pc_as_u32(st) == st.pc

\* `(reg as usize).wrapping_add_signed(sx as isize)` as an index into mem:
\* the sum when it is below 2^31, otherwise -1 (beyond every capacity)
usize_index(r, sx) ==
    IF r >= 0
    THEN IF sx > 0 /\ r > MaxI32 - sx THEN -1
         ELSE IF r + sx < 0 THEN -1
         ELSE r + sx
    ELSE IF sx >= 0 THEN -1
         ELSE IF (r - MinI32) > MaxI32 - (sx - MinI32) THEN -1
         ELSE (r - MinI32) + (sx - MinI32)

\* `reg.wrapping_add_signed(sx)` on u32, then `as usize`, as an index into mem
u32_index(r, sx) ==
    LET index == AddWrap(r, sx) IN IF index < 0 THEN -1 ELSE index

InMem(st, index) == index >= 0 /\ index < Capacity(st)

\* the n bytes at index..index+n-1, least significant first
RECURSIVE read_le(_, _, _)
read_le(st, index, n) ==
    IF n = 0 THEN <<>>
    ELSE read_le(st, index + 1, n - 1) \o <<st.mem[index]>>

\* the n bytes at index..index+n-1, most significant first, as a number
RECURSIVE read_be(_, _, _)
read_be(st, index, n) ==
    IF n = 0 THEN <<>>
    ELSE <<st.mem[index]>> \o read_be(st, index + 1, n - 1)

\* the .get(index + offset).unwrap() of the loads succeeds for every offset
LoadInMem(st, index, n) == InMem(st, index) /\ InMem(st, index + (n - 1))

\* the bytes of val least significant first
store_byte_le(val, n, k) == AsU8(Shr(val, 8 * k))

\* byte k (0 first) of the n low bytes of val, most significant first:
\* `(val >> 8 * (n - 1 - k)) as u8`
store_byte(val, n, k) == AsU8(Shr(val, 8 * ((n - 1) - k)))

\* the stores' for_each: bytes k..n-1 are written in order and the first index
\* outside mem panics, after the earlier bytes were written
RECURSIVE store_from(_, _, _, _, _)
store_from(st, index, val, n, k) ==
    IF k >= n THEN st
    ELSE IF ~InMem(st, index) \/ ~InMem(st, index + k) THEN Panic(st)
    ELSE store_from([st EXCEPT !.mem[index + k] = store_byte(val, n, k)],
                    index, val, n, k + 1)

\* `rs1.saturating_add_signed(sx)` on u32
saturating_add_signed(r, sx) ==
    IF r >= 0
    THEN IF sx > 0 /\ r > MaxI32 - sx THEN AddWrap(r, sx)
         ELSE IF r + sx < 0 THEN 0
         ELSE r + sx
    ELSE IF sx >= 0 /\ AddOverflowsU32(r, sx) THEN -1
         ELSE AddWrap(r, sx)

\* `sx * 2 - 4` in i32: <<panics, value>>
branch_delta(sx, chk) ==
    LET mulOver == sx > MaxI32 \div 2 \/ sx < MinI32 \div 2
        dbl     == Shl1(sx)
    IN  <<chk /\ (mulOver \/ SubOverflowsI32(dbl, 4)), SubWrap(dbl, 4)>>

\* the branch variants: `self.pc += if cond { sx * 2 - 4 } else { 0 } as i64`
apply_branch(st, inst, chk, cond) ==
    LET d == branch_delta(sign_extend_small(inst.imm), chk)
    IN  IF ~(RegInRange(inst.rs1) /\ RegInRange(inst.rs2)) THEN Panic(st)
        ELSE IF ~cond THEN advance(st)
        ELSE IF d[1] THEN Panic(st)
        ELSE advance([st EXCEPT !.pc = @ + d[2]])

\* a variant that evaluates val and hands it to set_register; ok is false when
\* evaluating val panics
write_rd(st, inst, ok, val) ==
    IF ok THEN advance(set_register(st, inst.rd, val)) ELSE Panic(st)

\* the loads: index by usize arithmetic, n bytes assembled most significant
\* first by `<< 8 * (n - 1 - offset)` and summed, then the variant's extension
apply_load(st, inst, n, signed) ==
    LET index == usize_index(get_register(st, inst.rs1), sign_extend_small(inst.imm))
        b     == read_be(st, index, n)
        val   == IF n = 1 THEN b[1]
                 ELSE IF n = 2 THEN (b[1] * 256) + b[2]
                 ELSE U32((b[1] * 256) + b[2], (b[3] * 256) + b[4])
        ext   == IF signed /\ n = 1 /\ BitAnd(val, 128) = 128
                    THEN AddWrap(val, U32(65535, 65280))
                 ELSE IF signed /\ n = 2 /\ BitAnd(val, Shl(1, 15)) = Shl(1, 15)
                    THEN AddWrap(val, U32(65535, 0))
                 ELSE val
    IN  IF ~RegInRange(inst.rs1) THEN Panic(st)
        ELSE IF ~LoadInMem(st, index, n) THEN Panic(st)
        ELSE advance(set_register(st, inst.rd, ext))

\* the stores: index by u32 arithmetic, the n low bytes of rs2
apply_store(st, inst, n) ==
    IF ~(RegInRange(inst.rs1) /\ RegInRange(inst.rs2)) THEN Panic(st)
    ELSE LET index == u32_index(get_register(st, inst.rs1),
                                sign_extend_small(inst.imm))
             done  == store_from(st, index, get_register(st, inst.rs2), n, 0)
         IN  IF done.panicked THEN done ELSE advance(done)

\* JAL: the link is written, then pc += sx as i64 * 2 - 4
apply_JAL(st, inst, chk) ==
    IF chk /\ AddOverflowsU32(pc_as_u32(st), 4) THEN Panic(st)
    ELSE LET linked == set_register(st, inst.rd, AddWrap(pc_as_u32(st), 4))
         IN  advance([linked EXCEPT
                        !.pc = @ + ((sign_extend_big(inst.imm) * 2) - 4)])

\* JALR: the link is written first, rs1 is read afterwards
apply_JALR(st, inst, chk) ==
    IF chk /\ AddOverflowsU32(pc_as_u32(st), 4) THEN Panic(st)
    ELSE LET linked == set_register(st, inst.rd, AddWrap(pc_as_u32(st), 4))
         IN  IF ~RegInRange(inst.rs1) THEN Panic(linked)
             ELSE advance([linked EXCEPT
                    !.pc = BitAnd(saturating_add_signed(
                                      get_register(linked, inst.rs1),
                                      sign_extend_small(inst.imm)),
                                  65534) - 4])

apply(st, inst, chk) ==
    LET op  == inst.op
        a   == get_register(st, inst.rs1)
        b   == get_register(st, inst.rs2)
        sx  == sign_extend_small(inst.imm)
        r1  == RegInRange(inst.rs1)
        r12 == RegInRange(inst.rs1) /\ RegInRange(inst.rs2)
        one(c) == IF c THEN 1 ELSE 0
    IN  CASE op = "ADD" ->
               write_rd(st, inst, r12 /\ ~(chk /\ AddOverflowsU32(a, b)), AddWrap(a, b))
          [] op = "SUB" ->
               write_rd(st, inst, r12 /\ ~(chk /\ LtU(a, b)), SubWrap(a, b))
          [] op = "XOR" -> write_rd(st, inst, r12, BitXor(a, b))
          [] op = "OR" -> write_rd(st, inst, r12, BitOr(a, b))
          [] op = "AND" -> write_rd(st, inst, r12, BitAnd(a, b))
          [] op = "SLL" ->
               write_rd(st, inst, r12 /\ ~(chk /\ ShiftTooFar(b)), Shl(a, ShiftAmount(b)))
          [] op = "SRL" ->
               write_rd(st, inst, r12 /\ ~(chk /\ ShiftTooFar(b)), Shr(a, ShiftAmount(b)))
          [] op = "SRA" ->
               write_rd(st, inst, r12 /\ ~(chk /\ ShiftTooFar(b)),
                        transmute_to_unsigned(Sar(transmute_to_signed(a), ShiftAmount(b))))
          [] op = "SLT" ->
               write_rd(st, inst, r12,
                        one(transmute_to_signed(a) < transmute_to_signed(b)))
          [] op = "SLTU" -> write_rd(st, inst, r12, one(LtU(a, b)))
          [] op = "ADDI" ->
               write_rd(st, inst,
                        r1 /\ ~(chk /\ AddOverflowsI32(transmute_to_signed(a), sx)),
                        transmute_to_unsigned(AddWrap(transmute_to_signed(a), sx)))
          [] op = "XORI" ->
               write_rd(st, inst, r1,
                        transmute_to_unsigned(BitXor(transmute_to_signed(a), sx)))
          [] op = "ORI" ->
               write_rd(st, inst, r1,
                        transmute_to_unsigned(BitOr(transmute_to_signed(a), sx)))
          [] op = "ANDI" ->
               write_rd(st, inst, r1,
                        transmute_to_unsigned(BitAnd(transmute_to_signed(a), sx)))
          [] op = "SLLI" ->
               write_rd(st, inst, r1 /\ ~(chk /\ ShiftTooFar(inst.imm)),
                        Shl(a, ShiftAmount(inst.imm)))
          [] op = "SRLI" ->
               \* `a >> imm.val & 0b11111` parses as (a >> imm.val) & 0b11111
               write_rd(st, inst, r1 /\ ~(chk /\ ShiftTooFar(inst.imm)),
                        BitAnd(Shr(a, ShiftAmount(inst.imm)), 31))
          [] op = "SRAI" ->
               write_rd(st, inst, r1 /\ ~(chk /\ ShiftTooFar(inst.imm)),
                        transmute_to_unsigned(
                            BitAnd(Sar(transmute_to_signed(a), ShiftAmount(inst.imm)), 31)))
          [] op = "SLTI" ->
               write_rd(st, inst, r1, one(transmute_to_signed(a) < sx))
          [] op = "SLTUI" ->
               write_rd(st, inst, r1, one(LtU(a, transmute_to_unsigned(sx))))
          [] op = "LBU" -> apply_load(st, inst, 1, FALSE)
          [] op = "LHU" -> apply_load(st, inst, 2, FALSE)
          [] op = "LB" -> apply_load(st, inst, 1, TRUE)
          [] op = "LH" -> apply_load(st, inst, 2, TRUE)
          [] op = "LW" -> apply_load(st, inst, 4, FALSE)
          [] op = "SB" -> apply_store(st, inst, 1)
          [] op = "SH" -> apply_store(st, inst, 2)
          [] op = "SW" -> apply_store(st, inst, 4)
          [] op = "BEQ" -> apply_branch(st, inst, chk, r12 /\ a = b)
          [] op = "BNE" -> apply_branch(st, inst, chk, r12 /\ a # b)
          [] op = "BLT" ->
               apply_branch(st, inst, chk,
                            r12 /\ transmute_to_signed(a) < transmute_to_signed(b))
          [] op = "BLTU" -> apply_branch(st, inst, chk, r12 /\ LtU(a, b))
          [] op = "BGE" ->
               apply_branch(st, inst, chk,
                            r12 /\ transmute_to_signed(a) >= transmute_to_signed(b))
          [] op = "BGEU" -> apply_branch(st, inst, chk, r12 /\ ~LtU(a, b))
          [] op = "JAL" -> apply_JAL(st, inst, chk)
          [] op = "JALR" -> apply_JALR(st, inst, chk)
          [] op = "LUI" -> write_rd(st, inst, TRUE, Shl(inst.imm, 12))
          [] op = "AUIPC" ->
               write_rd(st, inst,
                        ~(chk /\ AddOverflowsU32(pc_as_u32(st), Shl(inst.imm, 12))),
                        AddWrap(pc_as_u32(st), Shl(inst.imm, 12)))
          \* ECALL, EBREAK: panic!("Instruction Not Implemented!!")
          [] OTHER -> Panic(st)

\* ------------------------------------------------------------------------
\* ArchState::tick (vm.rs 732-739)
\* ------------------------------------------------------------------------

\* `self.mem[self.pc as usize + k]` for k = 0..3 are inside mem (a negative pc
\* casts to an index beyond every capacity)
FetchInMem(st) == st.pc >= 0 /\ st.pc + 3 < Capacity(st)

\* u32::from_le_bytes of the four bytes at pc
fetch_le(st) ==
    U32((st.mem[st.pc + 3] * 256) + st.mem[st.pc + 2],
        (st.mem[st.pc + 1] * 256) + st.mem[st.pc])

\* u32::from_be_bytes of the four bytes at pc
fetch(st) ==
    U32((st.mem[st.pc] * 256) + st.mem[st.pc + 1],
        (st.mem[st.pc + 2] * 256) + st.mem[st.pc + 3])

\* the decoded Instruction is one value, handed to apply (the sets below have
\* one element each)
tick(st, chk) ==
    IF ~FetchInMem(st) THEN Panic(st)
    ELSE CHOOSE after \in {apply(st, inst, chk) :
                               inst \in {interpret_bytes(fetch(st))}} : TRUE

\* ------------------------------------------------------------------------
\* State
\* ------------------------------------------------------------------------

VARIABLES
    machine,          \* the ArchState (inside the Mutex when the harness runs)
    overflow_checks,  \* the build profile: TRUE debug, FALSE release
    lock,             \* holder of the Mutex: "free", "ui" or "exec"
    poisoned,         \* the Mutex is poisoned (a holder panicked)
    ui_pc,            \* where the observer (run_ui, then run_tui's tail) is
    ui_pause,         \* GUI.pause
    pause_ch,         \* messages in flight on the pause channel (Sender<bool>)
    step_ch,          \* number of () in flight on the step channel
    quit_ch,          \* number of () in flight on the quit channel
    senders_dropped,  \* the GUI, with pause_sender and step_sender, is dropped
    t_pc,             \* where the execution thread is
    t_pause,          \* the thread's local `pause`
    inst_count,       \* the thread's local `inst_count`
    ticks,            \* history: calls of tick made by the thread
    steps_sent,       \* history: () sent on the step channel
    toggles_sent,     \* history: pause toggles sent
    unpaused,         \* history: the thread has once set pause = false
    last,             \* history: the last operation made on the machine alone
    before,           \* history: the operation made before that one
    prev,             \* history: the machine before that operation
    nops,             \* history: number of operations made on the machine alone
    sx,               \* an immediate, and what sign_extend made of it
    dec,              \* a word, and what interpret_bytes made of it
    startup,          \* run_tui's start-up: to_load, pairs loaded, spawned
    pause_tags,       \* history: for each message of pause_ch, "toggle" or "wake"
    step_tags,        \* history: for each () of step_ch, the toggles sent before
    toggles_applied,  \* history: pause toggles the thread has received
    step_early        \* history: a step was taken ahead of an earlier toggle

hvars == <<lock, poisoned, ui_pc, ui_pause, pause_ch, step_ch, quit_ch,
           senders_dropped, t_pc, t_pause, inst_count, ticks, steps_sent,
           toggles_sent, unpaused>>

vmvars == <<last, before, prev, nops>>

ordvars == <<pause_tags, step_tags, toggles_applied, step_early>>

vars == <<machine, overflow_checks, lock, poisoned, ui_pc, ui_pause, pause_ch,
          step_ch, quit_ch, senders_dropped, t_pc, t_pause, inst_count, ticks,
          steps_sent, toggles_sent, unpaused, last, before, prev, nops, sx,
                   dec, startup, ordvars>>

\* counters of the harness are exact up to CountCap and stay there
CountCap == (IF MemCap \div 4 > MaxSteps THEN MemCap \div 4 ELSE MaxSteps) + 2

Count(n) == IF n < CountCap THEN n + 1 ELSE n

NoOp == [op |-> "none", inst |-> nop, program |-> <<>>, offset |-> 0,
         index |-> 0, val |-> 0]

NoSx == [kind |-> "none", val |-> 0, done |-> FALSE, out |-> 0]

NoDec == [word |-> 0, done |-> FALSE, inst |-> nop]

\* no run_tui in progress
NoStartup == [to_load |-> <<>>, loaded |-> 0, spawned |-> FALSE]

\* the harness as run_tui leaves it when the thread is spawned (main.rs 37-45,
\* ui.rs 63-77)
HarnessInit ==
    /\ lock = "free"
    /\ poisoned = FALSE
    /\ ui_pc = "lock"
    /\ ui_pause = TRUE
    /\ pause_ch = <<>>
    /\ step_ch = 0
    /\ quit_ch = 0
    /\ senders_dropped = FALSE
    /\ t_pc = "quit_check"
    /\ t_pause = TRUE
    /\ inst_count = 0
    /\ ticks = 0
    /\ steps_sent = 0
    /\ toggles_sent = 0
    /\ unpaused = FALSE
    /\ pause_tags = <<>>
    /\ step_tags = <<>>
    /\ toggles_applied = 0
    /\ step_early = FALSE

VMIdle == last = NoOp /\ before = NoOp /\ nops = 0

\* ------------------------------------------------------------------------
\* Programs handed to run_tui in the model
\* ------------------------------------------------------------------------

\* the four bytes of a word, most significant first
word_bytes(w) == [k \in 1..4 |-> store_byte(w, 4, k - 1)]

\* ADDI x1, x1, 1 = 0b1_00001_000_00001_0010011 (integration_tests.rs 8)
AddiWord == U32(16, 32915)

\* integration_tests.rs 9-17: every byte of memory from the ADDI word
AccProgram == [i \in 1..MemCap |-> store_byte(AddiWord, 4, (i - 1) % 4)]

\* JAL x0, 0: a jump to itself
LoopProgram == word_bytes(U32(0, 111))

\* LB x1, 2047(x0): a load beyond the capacity
LoadFaultProgram == word_bytes(U32(32752, 131))

\* ADDI x1, x0, 2047; SB x0, 0(x1): a store beyond the capacity
StoreFaultProgram == word_bytes(U32(32752, 147)) \o word_bytes(U32(0, 32803))

Programs == {AccProgram, LoopProgram, LoadFaultProgram, StoreFaultProgram}

\* ------------------------------------------------------------------------
\* The execution thread (main.rs 43-60)
\* ------------------------------------------------------------------------

\* the thread has left its closure: its three receivers are dropped
ThreadEnded == t_pc \in {"done", "panicked"}

\* `while quit_rx.try_recv().is_err()`
ExecQuitCheck ==
    /\ t_pc = "quit_check"
    /\ IF quit_ch > 0
       THEN quit_ch' = quit_ch - 1 /\ t_pc' = "done"
       ELSE quit_ch' = quit_ch /\ t_pc' = "pause_check"
    /\ UNCHANGED <<machine, overflow_checks, lock, poisoned, ui_pc, ui_pause,
                   pause_ch, step_ch, senders_dropped, t_pause, inst_count,
                   ticks, steps_sent, toggles_sent, unpaused, last, before, prev, nops, sx,
                   dec, startup, ordvars>>

ExecPauseCheckKeepsStep ==
    /\ t_pc = "pause_check"
    /\ t_pc' = IF ~t_pause \/ step_ch > 0 THEN "lock" ELSE "recv"
    /\ UNCHANGED <<machine, overflow_checks, lock, poisoned, ui_pc, ui_pause,
                   pause_ch, step_ch, quit_ch, senders_dropped, t_pause, inst_count,
                   ticks, steps_sent, toggles_sent, unpaused, last, before, prev, nops, sx,
                   dec, startup, ordvars>>

\* `while pause && step_rx.try_recv().is_err()`: try_recv is made only when
\* pause holds, and takes a () when there is one
ExecPauseCheck ==
    /\ t_pc = "pause_check"
    /\ IF ~t_pause THEN step_ch' = step_ch /\ t_pc' = "lock"
       ELSE IF step_ch > 0 THEN step_ch' = step_ch - 1 /\ t_pc' = "lock"
       ELSE step_ch' = step_ch /\ t_pc' = "recv"
    /\ UNCHANGED <<machine, overflow_checks, lock, poisoned, ui_pc, ui_pause,
                   pause_ch, quit_ch, senders_dropped, t_pause, inst_count,
                   ticks, steps_sent, toggles_sent, unpaused, last, before, prev, nops, sx,
                   dec, startup>>
    /\ IF t_pause /\ step_ch > 0
       THEN /\ step_tags' = Tail(step_tags)
            /\ step_early' = (step_early \/ Head(step_tags) > toggles_applied)
       ELSE UNCHANGED <<step_tags, step_early>>
    /\ UNCHANGED <<pause_tags, toggles_applied>>


\* `match pause_rx.recv() { Ok(b) => pause = b, ...`: blocks while the channel
\* is empty and a sender lives
ExecRecv ==
    /\ t_pc = "recv"
    /\ pause_ch # <<>>
    /\ t_pause' = Head(pause_ch)
    /\ pause_ch' = Tail(pause_ch)
    /\ unpaused' = (unpaused \/ ~Head(pause_ch))
    /\ t_pc' = "pause_check"
    /\ UNCHANGED <<machine, overflow_checks, lock, poisoned, ui_pc, ui_pause,
                   step_ch, quit_ch, senders_dropped, inst_count,
                   ticks, steps_sent, toggles_sent, last, before, prev, nops, sx,
                   dec, startup>>
    /\ pause_tags' = Tail(pause_tags)
    /\ toggles_applied' = toggles_applied
                              + (IF Head(pause_tags) = "toggle" THEN 1 ELSE 0)
    /\ UNCHANGED <<step_tags, step_early>>


\* `... Err(_) => {} }`: recv on an empty channel whose senders are dropped
ExecRecvDisconnected ==
    /\ t_pc = "recv"
    /\ pause_ch = <<>>
    /\ senders_dropped
    /\ t_pc' = "pause_check"
    /\ UNCHANGED <<machine, overflow_checks, lock, poisoned, ui_pc, ui_pause,
                   pause_ch, step_ch, quit_ch, senders_dropped, t_pause, inst_count,
                   ticks, steps_sent, toggles_sent, unpaused, last, before, prev, nops, sx,
                   dec, startup, ordvars>>

\* the lock is taken without waiting for its holder
ExecLockNoWait ==
    /\ t_pc = "lock"
    /\ ~poisoned
    /\ lock' = "exec"
    /\ inst_count' = Count(inst_count)
    /\ t_pc' = "tick"
    /\ UNCHANGED <<machine, overflow_checks, poisoned, ui_pc, ui_pause,
                   pause_ch, step_ch, quit_ch, senders_dropped, t_pause,
                   ticks, steps_sent, toggles_sent, unpaused, last, before, prev, nops, sx,
                   dec, startup, ordvars>>

\* `inst_count += 1;` and `arch_state_mutex.lock().unwrap()`
ExecLock ==
    /\ t_pc = "lock"
    /\ lock = "free"
    /\ ~poisoned
    /\ lock' = "exec"
    /\ inst_count' = Count(inst_count)
    /\ t_pc' = "tick"
    /\ UNCHANGED <<machine, overflow_checks, poisoned, ui_pc, ui_pause,
                   pause_ch, step_ch, quit_ch, senders_dropped, t_pause,
                   ticks, steps_sent, toggles_sent, unpaused, last, before, prev, nops, sx,
                   dec, startup, ordvars>>

ExecTickGoesOn ==
    /\ t_pc = "tick"
    /\ machine' = tick(machine, overflow_checks)
    /\ ticks' = Count(ticks)
    /\ lock' = "free"
    /\ t_pc' = "quit_check"
    /\ UNCHANGED <<overflow_checks, poisoned, ui_pc, ui_pause, pause_ch, step_ch, quit_ch,
                   senders_dropped, t_pause, inst_count, steps_sent,
                   toggles_sent, unpaused, last, before, prev, nops, sx,
                   dec, startup, ordvars>>

\* `.tick()` under the guard, the guard's drop, and the match on its result.
\* tick returns no Err: where it fails it panics, the unwinding drops the
\* guard, which poisons the Mutex, and ends the thread.
ExecTick ==
    /\ t_pc = "tick"
    /\ machine' = tick(machine, overflow_checks)
    /\ ticks' = Count(ticks)
    /\ lock' = "free"
    /\ poisoned' = (poisoned \/ machine'.panicked)
    /\ t_pc' = IF machine'.panicked THEN "panicked" ELSE "quit_check"
    /\ UNCHANGED <<overflow_checks, ui_pc, ui_pause, pause_ch, step_ch, quit_ch,
                   senders_dropped, t_pause, inst_count, steps_sent,
                   toggles_sent, unpaused, last, before, prev, nops, sx,
                   dec, startup, ordvars>>

ExecNext ==
    \/ ExecQuitCheck
    \/ ExecPauseCheck
    \/ ExecRecv
    \/ ExecRecvDisconnected
    \/ ExecLock
    \/ ExecTick

\* ------------------------------------------------------------------------
\* The observer (ui.rs 115-185, main.rs 62-64)
\* ------------------------------------------------------------------------

\* what handle_input makes of one event: at most one of exit, step and
\* toggle_pause is set (ui.rs 333-375)
UIInputs == {"none", "exit", "step", "toggle"}

\* `let arch_state = state_mutex.lock().unwrap();` at the top of the loop
UILock ==
    /\ ui_pc = "lock"
    /\ lock = "free"
    /\ ~poisoned
    /\ lock' = "ui"
    /\ ui_pc' = "poll"
    /\ UNCHANGED <<machine, overflow_checks, poisoned, ui_pause, pause_ch, step_ch,
                   quit_ch, senders_dropped, t_pc, t_pause, inst_count, ticks,
                   steps_sent, toggles_sent, unpaused, last, before, prev, nops, sx,
                   dec, startup, ordvars>>

\* the same lock() on a poisoned Mutex returns Err and unwrap panics
UILockPoisoned ==
    /\ ui_pc = "lock"
    /\ lock = "free"
    /\ poisoned
    /\ ui_pc' = "panicked"
    /\ UNCHANGED <<machine, overflow_checks, lock, poisoned, ui_pause, pause_ch,
                   step_ch, quit_ch, senders_dropped, t_pc, t_pause, inst_count,
                   ticks, steps_sent, toggles_sent, unpaused, last, before, prev, nops, sx,
                   dec, startup, ordvars>>

\* poll/read/handle_input, the draw, `if inputs.exit { break; }`,
\* `self.step = inputs.step; self.pause = self.pause != inputs.toggle_pause;`
UIPoll(inp) ==
    /\ ui_pc = "poll"
    /\ inp = "step" /\ ui_pause => steps_sent < MaxSteps
    /\ inp = "toggle" => toggles_sent < MaxToggles
    /\ ui_pause' = IF inp = "toggle" THEN ~ui_pause ELSE ui_pause
    /\ ui_pc' = CASE inp = "exit" -> "exit"
                  [] inp = "toggle" -> "send_toggle"
                  [] inp = "step" /\ ui_pause -> "send_step"
                  [] OTHER -> "unlock"
    /\ UNCHANGED <<machine, overflow_checks, lock, poisoned, pause_ch, step_ch,
                   quit_ch, senders_dropped, t_pc, t_pause, inst_count, ticks,
                   steps_sent, toggles_sent, unpaused, last, before, prev, nops, sx,
                   dec, startup, ordvars>>

\* `if inputs.toggle_pause { let _ = self.pause_sender.send(self.pause); }`
\* (a send to a dropped receiver fails and is ignored)
UISendToggle ==
    /\ ui_pc = "send_toggle"
    /\ pause_ch' = IF ThreadEnded THEN pause_ch ELSE Append(pause_ch, ui_pause)
    /\ toggles_sent' = toggles_sent + 1
    /\ ui_pc' = "unlock"
    /\ UNCHANGED <<machine, overflow_checks, lock, poisoned, ui_pause, step_ch,
                   quit_ch, senders_dropped, t_pc, t_pause, inst_count, ticks,
                   steps_sent, unpaused, last, before, prev, nops, sx,
                   dec, startup>>
    /\ pause_tags' = IF ThreadEnded THEN pause_tags
                     ELSE Append(pause_tags, "toggle")
    /\ UNCHANGED <<step_tags, toggles_applied, step_early>>


UISendStepWithoutWake ==
    /\ ui_pc = "send_step"
    /\ step_ch' = IF ThreadEnded THEN step_ch ELSE step_ch + 1
    /\ steps_sent' = steps_sent + 1
    /\ ui_pc' = "unlock"
    /\ UNCHANGED <<machine, overflow_checks, lock, poisoned, ui_pause, pause_ch,
                   quit_ch, senders_dropped, t_pc, t_pause, inst_count, ticks,
                   toggles_sent, unpaused, last, before, prev, nops, sx,
                   dec, startup>>
    /\ step_tags' = IF ThreadEnded THEN step_tags
                    ELSE Append(step_tags, toggles_sent)
    /\ UNCHANGED <<pause_tags, toggles_applied, step_early>>


\* `if self.step && self.pause { let _ = self.step_sender.send(());`
UISendStep ==
    /\ ui_pc = "send_step"
    /\ step_ch' = IF ThreadEnded THEN step_ch ELSE step_ch + 1
    /\ steps_sent' = steps_sent + 1
    /\ ui_pc' = "send_wake"
    /\ UNCHANGED <<machine, overflow_checks, lock, poisoned, ui_pause, pause_ch,
                   quit_ch, senders_dropped, t_pc, t_pause, inst_count, ticks,
                   toggles_sent, unpaused, last, before, prev, nops, sx,
                   dec, startup>>
    /\ step_tags' = IF ThreadEnded THEN step_tags
                    ELSE Append(step_tags, toggles_sent)
    /\ UNCHANGED <<pause_tags, toggles_applied, step_early>>


\* `let _ = self.pause_sender.send(self.pause); }`
UISendWake ==
    /\ ui_pc = "send_wake"
    /\ pause_ch' = IF ThreadEnded THEN pause_ch ELSE Append(pause_ch, ui_pause)
    /\ ui_pc' = "unlock"
    /\ UNCHANGED <<machine, overflow_checks, lock, poisoned, ui_pause, step_ch,
                   quit_ch, senders_dropped, t_pc, t_pause, inst_count, ticks,
                   steps_sent, toggles_sent, unpaused, last, before, prev, nops, sx,
                   dec, startup>>
    /\ pause_tags' = IF ThreadEnded THEN pause_tags
                     ELSE Append(pause_tags, "wake")
    /\ UNCHANGED <<step_tags, toggles_applied, step_early>>


\* `drop(arch_state); thread::sleep(..)` and back to the top of the loop
UIUnlock ==
    /\ ui_pc = "unlock"
    /\ lock' = "free"
    /\ ui_pc' = "lock"
    /\ UNCHANGED <<machine, overflow_checks, poisoned, ui_pause, pause_ch, step_ch,
                   quit_ch, senders_dropped, t_pc, t_pause, inst_count, ticks,
                   steps_sent, toggles_sent, unpaused, last, before, prev, nops, sx,
                   dec, startup, ordvars>>

\* `break` drops the guard; run_ui returns
UIExit ==
    /\ ui_pc = "exit"
    /\ lock' = "free"
    /\ ui_pc' = "quit_send"
    /\ UNCHANGED <<machine, overflow_checks, poisoned, ui_pause, pause_ch, step_ch,
                   quit_ch, senders_dropped, t_pc, t_pause, inst_count, ticks,
                   steps_sent, toggles_sent, unpaused, last, before, prev, nops, sx,
                   dec, startup, ordvars>>

\* `quit_tx.send(())?;`
UIQuit ==
    /\ ui_pc = "quit_send"
    /\ quit_ch' = IF ThreadEnded THEN quit_ch ELSE quit_ch + 1
    /\ ui_pc' = "drop"
    /\ UNCHANGED <<machine, overflow_checks, lock, poisoned, ui_pause, pause_ch,
                   step_ch, senders_dropped, t_pc, t_pause, inst_count, ticks,
                   steps_sent, toggles_sent, unpaused, last, before, prev, nops, sx,
                   dec, startup, ordvars>>

\* run_tui returns: gui, with its two senders, and quit_tx are dropped
UIDrop ==
    /\ ui_pc = "drop"
    /\ senders_dropped' = TRUE
    /\ ui_pc' = "returned"
    /\ UNCHANGED <<machine, overflow_checks, lock, poisoned, ui_pause, pause_ch,
                   step_ch, quit_ch, t_pc, t_pause, inst_count, ticks,
                   steps_sent, toggles_sent, unpaused, last, before, prev, nops, sx,
                   dec, startup, ordvars>>

UINext ==
    \/ UILock
    \/ UILockPoisoned
    \/ \E inp \in UIInputs : UIPoll(inp)
    \/ UISendToggle
    \/ UISendStep
    \/ UISendWake
    \/ UIUnlock
    \/ UIExit
    \/ UIQuit
    \/ UIDrop

\* ------------------------------------------------------------------------
\* The harness: run_tui with a program from Programs loaded at 0
\* ------------------------------------------------------------------------

Init ==
    /\ \E program \in Programs : machine = load(with_mem(MemCap), program, 0)
    /\ overflow_checks \in BOOLEAN
    /\ HarnessInit
    /\ VMIdle
    /\ prev = with_mem(0)
    /\ sx = NoSx
    /\ dec = NoDec
    /\ startup = NoStartup

Next == ExecNext \/ UINext

Spec == Init /\ [][Next]_vars

\* the two OS threads are both scheduled again and again
FairSpec == Spec /\ WF_vars(ExecNext) /\ WF_vars(UINext)

\* ------------------------------------------------------------------------
\* Claims about the harness
\* ------------------------------------------------------------------------

\* The thread is blocked in pause_rx.recv() with nothing left to receive, and
\* the observer is not between a step message and its wake-up message.
BlockedAgain ==
    /\ t_pc = "recv"
    /\ pause_ch = <<>>
    /\ ui_pc # "send_wake"

\* C2: while the execution thread has never been unpaused, there are never
\* more ticks than steps sent, and once n steps have been sent (each a step
\* message followed by a pause(true) wake-up) and the thread is blocked again,
\* exactly n ticks have been made, no step message is left over, and the
\* thread is still paused.
C2_StepIsOneTick ==
    ~unpaused =>
        /\ ticks <= steps_sent
        /\ BlockedAgain => (ticks = steps_sent /\ step_ch = 0 /\ t_pause)

C2_Witness ==
    /\ ~unpaused
    /\ BlockedAgain
    /\ steps_sent = MaxSteps
    /\ ticks = MaxSteps
    /\ t_pause

\* The thread is Running with a pause(true) command in flight.
PauseRequestedWhileRunning ==
    /\ ~t_pause
    /\ ~ThreadEnded
    /\ \E i \in 1..Len(pause_ch) : pause_ch[i]

\* C3: when the thread is Running and the observer has sent pause-toggle(true),
\* the thread eventually becomes Paused (or has ended by quit or by a fault).
C3_PauseTakesEffect ==
    PauseRequestedWhileRunning ~> (t_pause \/ ThreadEnded)

\* C4: once the observer has sent quit and dropped its senders, the thread
\* eventually leaves its loop.
C4_QuitStops ==
    (ui_pc = "returned") ~> ThreadEnded

\* C5: when a tick addresses a byte at or beyond the capacity, the harness
\* ends in Stopped by way of a fault value, and neither the execution thread
\* nor the observer aborts.
C5_FaultContained ==
    machine.panicked => (t_pc = "done" /\ ui_pc # "panicked")

\* C6: after a tick has failed the thread makes no further tick: it never
\* again takes the lock or calls tick, and the machine stays as the failed
\* tick left it, whatever commands are in flight.
C6_NoTickAfterFault ==
    [][machine.panicked =>
          /\ machine' = machine
          /\ ticks' = ticks
          /\ inst_count' = inst_count
          /\ t_pc' \notin {"lock", "tick"}]_vars

C6_Witness ==
    /\ machine.panicked
    /\ t_pc = "panicked"
    /\ pause_ch # <<>>

\* C11 (its ordering part): no step is taken by the thread before every
\* pause-toggle that was sent before that step has been received by it.
C11_CommandsInOrder == ~step_early

\* the observer holds the lock: from its lock() to its drop of the guard
UIHolds ==
    ui_pc \in {"poll", "send_toggle", "send_step", "send_wake", "unlock", "exit"}

\* C12: the observer never holds the lock, and so never reads the machine,
\* while a tick is in progress; the thread holds the lock exactly while it
\* makes one tick, and the observer reads (at "poll") only under the lock.
C12_ReadsBetweenTicks ==
    /\ ~(t_pc = "tick" /\ UIHolds)
    /\ (lock = "exec") <=> (t_pc = "tick")
    /\ UIHolds <=> (lock = "ui")

\* the observer waits for the lock while the thread makes its second tick
C12_Witness ==
    /\ t_pc = "tick"
    /\ lock = "exec"
    /\ ui_pc = "lock"
    /\ ticks = 1

\* every 4-byte slot of memory from address 0 holds the ADDI word
AccLoaded ==
    \A s \in 0..((MemCap \div 4) - 1) :
        \A k \in 0..3 : machine.mem[(4 * s) + k] = <<0, 16, 128, 147>>[k + 1]

\* C7: with every slot holding ADDI x1, x1, 1, from pc = 0 and x1 = 0, after k
\* ticks (1 <= k <= capacity / 4) register 1 holds k and pc is 4k.
C7_Accumulator ==
    (AccLoaded /\ ticks \in 1..(MemCap \div 4)) =>
        /\ ~machine.panicked
        /\ get_register(machine, 1) = ticks
        /\ machine.pc = 4 * ticks

C7_Witness ==
    /\ AccLoaded
    /\ ticks = MemCap \div 4
    /\ get_register(machine, 1) = MemCap \div 4
    /\ machine.pc = 4 * (MemCap \div 4)


\* ------------------------------------------------------------------------
\* The machine alone: load, set_register, apply and tick called on an
\* ArchState as the tests of vm.rs call them
\* ------------------------------------------------------------------------

\* values of x1, the base register of loads, stores and JALR: the first word,
\* the last word, a word straddling the end, and 0xFFFFFFFF
AddrVals == {0, MemCap - 4, MemCap - 2, -1}

\* values of x2: 0xDEADBEEF and 0x7F0180FF
DataVals == {U32(57005, 48879), U32(32513, 33023)}

RdSet == {0, 3}

ROps == {"ADD", "SUB", "SLL", "SLT", "SLTU", "XOR", "SRL", "SRA", "OR", "AND"}

IOps == {"ADDI", "SLTI", "SLTUI", "XORI", "ORI", "ANDI", "SLLI", "SRLI",
         "SRAI"}

LOps == {"LB", "LH", "LW", "LBU", "LHU"}

SOps == {"SB", "SH", "SW"}

BOps == {"BEQ", "BNE", "BLT", "BGE", "BLTU", "BGEU"}

\* the Instruction values handed to apply
Insts ==
    {Inst(op, rd, 2, 1, 0) : op \in ROps, rd \in RdSet}
    \cup {Inst(op, rd, 2, 0, 1) : op \in IOps, rd \in RdSet}
    \cup {Inst(op, rd, 1, 0, imm) : op \in LOps, rd \in RdSet, imm \in {0, 4}}
    \cup {Inst(op, 0, 1, 2, imm) : op \in SOps, imm \in {0, 4}}
    \cup {Inst(op, 0, 1, 2, 4) : op \in BOps}
    \cup {Inst(op, rd, 0, 0, 4) : op \in {"JAL"}, rd \in RdSet}
    \cup {Inst(op, rd, 1, 0, 4) : op \in {"JALR"}, rd \in RdSet}
    \cup {Inst(op, rd, 0, 0, 1) : op \in {"LUI", "AUIPC"}, rd \in RdSet}
    \cup {Inst(op, 0, 0, 0, 0) : op \in {"ECALL", "EBREAK"}}

LoadPrograms == {<<>>, <<170>>, <<1, 2, 3>>, word_bytes(AddiWord)}

LoadOffsets == {0, 2, MemCap - 2, MemCap}

SetIndexes == {0, 3, 32}

SetVals == {7, -1}

VMCanAct == nops < MaxOps /\ ~machine.panicked

VMDone(op) ==
    /\ last' = op
    /\ before' = last
    /\ prev' = machine
    /\ nops' = nops + 1
    /\ UNCHANGED <<overflow_checks, hvars, sx, dec, startup, ordvars>>

VMLoad(program, offset) ==
    /\ VMCanAct
    /\ machine' = load(machine, program, offset)
    /\ VMDone([NoOp EXCEPT !.op = "load", !.program = program,
                           !.offset = offset])

VMSetRegister(index, val) ==
    /\ VMCanAct
    /\ machine' = set_register(machine, index, val)
    /\ VMDone([NoOp EXCEPT !.op = "set_register", !.index = index,
                           !.val = val])

VMApply(inst) ==
    /\ VMCanAct
    /\ machine' = apply(machine, inst, overflow_checks)
    /\ VMDone([NoOp EXCEPT !.op = "apply", !.inst = inst])

VMTick ==
    /\ VMCanAct
    /\ machine' = tick(machine, overflow_checks)
    /\ VMDone([NoOp EXCEPT !.op = "tick"])

\* a fresh machine whose x1 and x2 were set
InitVM ==
    /\ \E a \in AddrVals, v \in DataVals :
           machine = set_register(set_register(with_mem(MemCap), 1, a), 2, v)
    /\ overflow_checks \in BOOLEAN
    /\ HarnessInit
    /\ VMIdle
    /\ prev = machine
    /\ sx = NoSx
    /\ dec = NoDec
    /\ startup = NoStartup

NextVM ==
    \/ \E program \in LoadPrograms, offset \in LoadOffsets :
           VMLoad(program, offset)
    \/ \E index \in SetIndexes, val \in SetVals : VMSetRegister(index, val)
    \/ \E inst \in Insts : VMApply(inst)
    \/ VMTick

SpecVM == InitVM /\ [][NextVM]_vars

\* ------------------------------------------------------------------------
\* Properties of the machine alone
\* ------------------------------------------------------------------------

\* C1: register 0 reads as 0 in every state, and a write to it changes no
\* register: an apply whose rd is 0, and set_register(0, v), leave the
\* register file as it was.
C1_X0 ==
    /\ get_register(machine, 0) = 0
    /\ (last.op = "apply" /\ last.inst.rd = 0) => machine.regs = prev.regs
    /\ (last.op = "set_register" /\ last.index = 0) => machine = prev

\* an ADD with rd = 0 whose sum is not 0 has run to its end
C1_Witness ==
    /\ last.op = "apply"
    /\ last.inst.op = "ADD"
    /\ last.inst.rd = 0
    /\ ~machine.panicked
    /\ machine.pc = prev.pc + 4
    /\ get_register(prev, 1) # 0
    /\ machine.regs = prev.regs

\* the effective address of a load or store whose base register and
\* immediate are both non-negative: base + immediate
PlainAddr(st, inst) ==
    get_register(st, inst.rs1) >= 0 /\ inst.imm \in 0..2047

EffAddr(st, inst) == get_register(st, inst.rs1) + inst.imm

\* the four bytes at a..a+3, read most significant first, are the value v
WordAt(st, a, v) ==
    U32((st.mem[a] * 256) + st.mem[a + 1],
        (st.mem[a + 2] * 256) + st.mem[a + 3]) = v

SWDone(inst, st) ==
    /\ inst.op = "SW"
    /\ PlainAddr(st, inst)
    /\ EffAddr(st, inst) + 3 < MemCap

\* C8: an SW of rs2's value v to an address A with A + 3 inside memory leaves
\* the bytes of v at A..A+3, most significant first; an LW from the same A
\* right after it leaves v in rd (register 0 still reads 0).
C8_StoreLoadRoundTrip ==
    /\ (last.op = "apply" /\ SWDone(last.inst, prev)) =>
           /\ ~machine.panicked
           /\ WordAt(machine, EffAddr(prev, last.inst),
                     get_register(prev, last.inst.rs2))
    /\ (/\ before.op = "apply"
        /\ last.op = "apply"
        /\ SWDone(before.inst, prev)
        /\ last.inst.op = "LW"
        /\ PlainAddr(prev, last.inst)
        /\ EffAddr(prev, last.inst) = EffAddr(prev, before.inst)) =>
           /\ ~machine.panicked
           /\ get_register(machine, last.inst.rd)
                  = (IF last.inst.rd = 0 THEN 0
                     ELSE get_register(prev, before.inst.rs2))

\* 0xDEADBEEF went to the last word of memory and came back into x3
C8_Witness ==
    /\ before.op = "apply"
    /\ before.inst.op = "SW"
    /\ last.op = "apply"
    /\ last.inst.op = "LW"
    /\ last.inst.rd = 3
    /\ EffAddr(prev, last.inst) = MemCap - 4
    /\ EffAddr(prev, before.inst) = MemCap - 4
    /\ get_register(prev, 2) = U32(57005, 48879)
    /\ get_register(machine, 3) = U32(57005, 48879)
    /\ machine.mem[MemCap - 4] = 222
    /\ machine.mem[MemCap - 1] = 239

LoadFits(op) == op.op = "load" /\ op.offset + Len(op.program) <= MemCap

Covers(op, i) == op.offset <= i /\ i < op.offset + Len(op.program)

\* C10: a load of P at offset o with o + len(P) inside memory puts P[i] at
\* o + i and changes no other byte, no register and not the pc; of two loads
\* that overlap, the later one's bytes stand in the overlap.
C10_LoadFrame ==
    /\ (last.op = "load" /\ LoadFits(last)) =>
           /\ ~machine.panicked
           /\ machine.regs = prev.regs
           /\ machine.pc = prev.pc
           /\ \A i \in 0..(MemCap - 1) :
                  machine.mem[i] = (IF Covers(last, i)
                                    THEN last.program[(i - last.offset) + 1]
                                    ELSE prev.mem[i])
    /\ (/\ last.op = "load"
        /\ LoadFits(last)
        /\ before.op = "load"
        /\ LoadFits(before)) =>
           \A i \in 0..(MemCap - 1) :
               (Covers(last, i) /\ Covers(before, i)) =>
                   machine.mem[i] = last.program[(i - last.offset) + 1]

\* <<1, 2, 3>> was loaded at 0 and then <<170>> over its last byte
C10_Witness ==
    /\ before.op = "load"
    /\ before.program = <<1, 2, 3>>
    /\ before.offset = 0
    /\ last.op = "load"
    /\ last.program = <<170>>
    /\ last.offset = 2
    /\ machine.mem[0] = 1
    /\ machine.mem[1] = 2
    /\ machine.mem[2] = 170

\* ------------------------------------------------------------------------
\* sign_extend alone
\* ------------------------------------------------------------------------

SmallVals == 0..4095

\* 20-bit immediates: around 0, around bit 11, around bit 19, all ones
BigVals == (0..3) \cup (2046..2050) \cup (524286..524290) \cup {1048575}

SignExtend ==
    /\ ~sx.done
    /\ sx' = [sx EXCEPT !.done = TRUE,
                        !.out = IF sx.kind = "small"
                                THEN sign_extend_small(sx.val)
                                ELSE sign_extend_big(sx.val)]
    /\ UNCHANGED <<machine, overflow_checks, hvars, vmvars, dec, startup, ordvars>>

InitBits ==
    /\ sx \in {[NoSx EXCEPT !.kind = "small", !.val = v] : v \in SmallVals}
              \cup {[NoSx EXCEPT !.kind = "big", !.val = v] : v \in BigVals}
    /\ machine = with_mem(0)
    /\ overflow_checks = FALSE
    /\ HarnessInit
    /\ VMIdle
    /\ prev = with_mem(0)
    /\ dec = NoDec
    /\ startup = NoStartup

NextBits == SignExtend

SpecBits == InitBits /\ [][NextBits]_vars

\* the value of the low w bits of val read as a w-bit two's-complement number
TwosComplement(val, w) ==
    IF val >= Pow2(w - 1) THEN val - Pow2(w) ELSE val

\* C9: sign_extend of a 12-bit immediate is its 12-bit two's-complement value,
\* and of a 20-bit immediate its 20-bit two's-complement value.
C9_SignExtend ==
    sx.done =>
        sx.out = (IF sx.kind = "small" THEN TwosComplement(sx.val, 12)
                  ELSE TwosComplement(sx.val, 20))

\* ------------------------------------------------------------------------
\* The decoder, and one tick on the decoded word
\* ------------------------------------------------------------------------

\* the word with the fields of the R format: f7 in bits 25..31, rs2 in 20..24,
\* rs1 in 15..19, f3 in 12..14, rd in 7..11, opc in 0..6 (the other formats
\* put parts of their immediates in f7, rs2 and rd)
Enc(f7, rs2, rs1, f3, rd, opc) ==
    U32(((f7 * 512) + (rs2 * 16)) + (rs1 \div 2),
        ((((rs1 % 2) * 32768) + (f3 * 4096)) + (rd * 128)) + opc)

\* the standard B-type word of a branch by d bytes (d even, -4096..4094):
\* bit 31 = d[12], bits 25..30 = d[10:5], bits 8..11 = d[4:1], bit 7 = d[11]
EncB(d, rs2, rs1, f3) ==
    LET u == d % 8192
    IN  Enc((((u \div 4096) % 2) * 64) + ((u \div 32) % 64), rs2, rs1, f3,
            (((u \div 2) % 16) * 2) + ((u \div 2048) % 2), 99)

\* words of every opcode 0..127, with the other bits all 0 or all 1
OpcodeWords ==
    {U32(hi, (lo * 128) + opc) : hi \in {0, 65535}, lo \in {0, 511},
                                 opc \in 0..127}

\* ECALL and EBREAK
SystemWords == {U32(0, 115), U32(16, 115)}

FieldWords(opc) ==
    {Enc(f7, rs2, rs1, f3, rd, opc) :
         f7 \in {0, 32}, rs2 \in {1, 21}, rs1 \in {0, 2}, f3 \in 0..7,
         rd \in {0, 1, 16, 31}}

StoreWords ==
    {Enc(f7, 2, 1, f3, rd, 35) :
         f7 \in {0, 1, 127}, f3 \in 0..2, rd \in {0, 4, 16, 31}}

BranchOffsets == {-4096, -2048, -8, -4, 0, 4, 8, 12, 16, 32, 2048, 4094}

\* branches whose condition holds when x1 = 1 and x2 = 2
BranchWords ==
    {EncB(d, 0, 0, f3) : d \in BranchOffsets, f3 \in {0, 5, 7}}
    \cup {EncB(d, 2, 1, f3) : d \in BranchOffsets, f3 \in {1, 4, 6}}

DecodeWords ==
    OpcodeWords \cup SystemWords \cup FieldWords(19) \cup FieldWords(51)
    \cup StoreWords \cup BranchWords

\* interpret_bytes on the word, and the tick that fetches it at pc = 0
DecodeTick ==
    /\ ~dec.done
    /\ dec' = [dec EXCEPT !.done = TRUE, !.inst = interpret_bytes(dec.word)]
    /\ machine' = tick(machine, overflow_checks)
    /\ prev' = machine
    /\ UNCHANGED <<overflow_checks, hvars, last, before, nops, sx, startup,
                   ordvars>>

\* a fresh machine with x1 = 1, x2 = 2 and the word loaded at 0
InitDecode ==
    /\ dec \in {[NoDec EXCEPT !.word = w] : w \in DecodeWords}
    /\ startup = NoStartup
    /\ machine = load(set_register(set_register(with_mem(MemCap), 1, 1), 2, 2),
                      word_bytes(dec.word), 0)
    /\ overflow_checks \in BOOLEAN
    /\ HarnessInit
    /\ VMIdle
    /\ prev = machine
    /\ sx = NoSx

NextDecode == DecodeTick

SpecDecode == InitDecode /\ [][NextDecode]_vars

\* bits lo..lo+n-1 of a word
Field(w, lo, n) == Shr(w, lo) % Pow2(n)

TableOpcodes == {51, 19, 3, 35, 99, 111, 103, 55, 23}

\* C13: a word whose low 7 bits are none of the nine table opcodes decodes to
\* ADDI{rd = 0, rs1 = 0, imm = 0}, and the tick on it changes no register and
\* no memory byte and advances pc by 4.
C13_UnknownOpcodeIsNop ==
    (dec.done /\ Field(dec.word, 0, 7) \notin TableOpcodes) =>
        /\ dec.inst = [op |-> "ADDI", rd |-> 0, rs1 |-> 0, rs2 |-> 0, imm |-> 0]
        /\ ~machine.panicked
        /\ machine.regs = prev.regs
        /\ machine.mem = prev.mem
        /\ machine.pc = prev.pc + 4

\* the word 0xFFFFFFF3 (opcode 1110011, every other bit set) went through
C13_Witness ==
    /\ dec.done
    /\ dec.word = U32(65535, 65523)
    /\ dec.inst.op = "ADDI"
    /\ machine.pc = 4

\* C14: a tick on an ECALL or EBREAK word (opcode 1110011) decodes it to the
\* ECALL or EBREAK variant and ends in a fault; it does not advance pc as a
\* no-op would.
C14_SystemFaults ==
    (dec.done /\ dec.word \in SystemWords) =>
        /\ dec.inst.op \in {"ECALL", "EBREAK"}
        /\ machine.panicked
        /\ machine.pc = prev.pc

\* ------------------------------------------------------------------------
\* Faults of the running machine
\* ------------------------------------------------------------------------

\* C15: whenever the thread is about to make a tick, on a machine that started
\* at pc = 0 and was only ticked, pc is a valid fetch address: pc >= 0 and
\* pc + 3 < capacity.
C15_PcValidAtFetch ==
    (t_pc = "tick" /\ ~machine.panicked) =>
        (machine.pc >= 0 /\ machine.pc + 3 < MemCap)

StoreWidth(inst) == IF inst.op = "SH" THEN 2 ELSE 4

\* an SH or SW whose first byte is inside memory and whose last byte is not
Straddles(st, inst) ==
    /\ inst.op \in {"SH", "SW"}
    /\ PlainAddr(st, inst)
    /\ EffAddr(st, inst) < MemCap
    /\ EffAddr(st, inst) + (StoreWidth(inst) - 1) >= MemCap

\* C16: an SH or SW that straddles the end of memory faults and leaves every
\* memory byte, every register and pc as they were before it.
C16_StraddlingStoreRejected ==
    (last.op = "apply" /\ Straddles(prev, last.inst)) =>
        /\ machine.panicked
        /\ machine.mem = prev.mem
        /\ machine.regs = prev.regs
        /\ machine.pc = prev.pc

\* ------------------------------------------------------------------------
\* The decoder against the RV32I encodings
\* ------------------------------------------------------------------------

\* the variant RV32I gives an I-type ALU word: by bits 12..14, and bit 30 for
\* the right shifts
ExpectedIAlu(w) ==
    LET f3 == Field(w, 12, 3)
    IN  CASE f3 = 0 -> "ADDI"
          [] f3 = 1 -> "SLLI"
          [] f3 = 2 -> "SLTI"
          [] f3 = 3 -> "SLTUI"
          [] f3 = 4 -> "XORI"
          [] f3 = 5 -> (IF Field(w, 30, 1) = 0 THEN "SRLI" ELSE "SRAI")
          [] f3 = 6 -> "ORI"
          [] f3 = 7 -> "ANDI"

\* C17: a word with opcode 0010011 decodes to the variant its bits 12..14 (and
\* bit 30) select, with rd = bits 7..11, rs1 = bits 15..19, imm = bits 20..31,
\* whatever the value of rd.
C17_IAluDecode ==
    (dec.done /\ Field(dec.word, 0, 7) = 19) =>
        dec.inst = [op |-> ExpectedIAlu(dec.word),
                    rd |-> Field(dec.word, 7, 5),
                    rs1 |-> Field(dec.word, 15, 5),
                    rs2 |-> 0,
                    imm |-> Field(dec.word, 20, 12)]

\* the pairs (bits 12..14, bit 30) of the RV32I register-register table
RTable ==
    (<<0, 0>> :> "ADD") @@ (<<0, 1>> :> "SUB") @@ (<<1, 0>> :> "SLL")
    @@ (<<2, 0>> :> "SLT") @@ (<<3, 0>> :> "SLTU") @@ (<<4, 0>> :> "XOR")
    @@ (<<5, 0>> :> "SRL") @@ (<<5, 1>> :> "SRA") @@ (<<6, 0>> :> "OR")
    @@ (<<7, 0>> :> "AND")

RPair(w) == <<Field(w, 12, 3), Field(w, 30, 1)>>

\* C18: a word with opcode 0110011 whose (bits 12..14, bit 30) is a pair of
\* the table decodes to the table's variant, with rd, rs1, rs2 from bits
\* 7..11, 15..19, 20..24.
C18_RDecode ==
    (/\ dec.done
     /\ Field(dec.word, 0, 7) = 51
     /\ RPair(dec.word) \in DOMAIN RTable) =>
        dec.inst = [op |-> RTable[RPair(dec.word)],
                    rd |-> Field(dec.word, 7, 5),
                    rs1 |-> Field(dec.word, 15, 5),
                    rs2 |-> Field(dec.word, 20, 5),
                    imm |-> 0]

\* the byte offset a standard B-type word encodes: bit 31 is d[12], bit 7 is
\* d[11], bits 25..30 are d[10:5], bits 8..11 are d[4:1]
BranchOffset(w) ==
    TwosComplement((((Field(w, 31, 1) * 4096) + (Field(w, 7, 1) * 2048))
                       + (Field(w, 25, 6) * 32)) + (Field(w, 8, 4) * 2), 13)

\* C19: for a standard B-type word of a branch whose condition holds, the
\* decoded immediate, sign-extended from 12 bits and doubled, is the encoded
\* byte offset d, and the tick from pc = p leaves pc = p + d.
C19_BranchDecode ==
    (dec.done /\ dec.word \in BranchWords) =>
        /\ 2 * TwosComplement(dec.inst.imm, 12) = BranchOffset(dec.word)
        /\ ~machine.panicked
        /\ machine.pc = prev.pc + BranchOffset(dec.word)

StoreTable == (0 :> "SB") @@ (1 :> "SH") @@ (2 :> "SW")

\* C20: a word with opcode 0100011 and bits 12..14 = 000, 001 or 010 decodes
\* to SB, SH or SW with rs1 = bits 15..19, rs2 = bits 20..24 and the 12-bit
\* immediate whose low 5 bits are bits 7..11 and whose high 7 bits are bits
\* 25..31.
C20_StoreDecode ==
    (/\ dec.done
     /\ Field(dec.word, 0, 7) = 35
     /\ Field(dec.word, 12, 3) \in DOMAIN StoreTable) =>
        dec.inst = [op |-> StoreTable[Field(dec.word, 12, 3)],
                    rd |-> 0,
                    rs1 |-> Field(dec.word, 15, 5),
                    rs2 |-> Field(dec.word, 20, 5),
                    imm |-> (Field(dec.word, 25, 7) * 32)
                                + Field(dec.word, 7, 5)]

\* ------------------------------------------------------------------------
\* One apply on a machine whose x1, x2 and pc were set (as the tests of
\* instruction_tests.rs do), over register values from the whole 32-bit range
\* ------------------------------------------------------------------------

\* the bytes of mem[0..15] before the apply
ApplyData == <<127, 128, 255, 1, 128, 0, 0, 255, 222, 173, 190, 239, 1, 2, 3, 4>>

\* values of x1: small addresses, 0x100, 0x10000, 0x7FFFFFFF, 0x80000000,
\* 0xFFFFFFFF and 0xDEADBEEF
ApplyBase == {0, 1, 8, 9, 12, 256, U32(1, 0), MaxI32, MinI32, -1, U32(57005, 48879)}

\* values of x2: shift amounts on both sides of 32, 0x80000000 and 0xFFFFFFFF
ApplyArg == {0, 1, 8, 31, 32, 33, MinI32, -1}

ApplyPcs == {0, 8}

ShiftOps == {"SLLI", "SRLI", "SRAI"}

\* immediates of the shifts: low 5 bits alone, and with bits 5 and 10 set
ShiftImms == {0, 1, 4, 31, 33, 1025, 1055}

\* immediates of loads, stores, branches and JALR: 0xFFC and 0xFFE are -4 and
\* -2 in 12 bits
MemImms == {0, 1, 4, 4092}

BranchImms == {0, 4, 2047, 4094}

JalrImms == {0, 1, 4, 4095}

ApplyInsts ==
    {Inst(op, 3, 1, 2, 0) : op \in ROps}
    \cup {Inst(op, 3, 1, 0, imm) : op \in ShiftOps, imm \in ShiftImms}
    \cup {Inst("ADDI", 3, 1, 0, imm) : imm \in {1, 2047, 4095}}
    \cup {Inst(op, 3, 0, 0, imm) : op \in {"LUI", "AUIPC"}, imm \in {1, 1048575}}
    \cup {Inst(op, 0, 1, 2, imm) : op \in BOps, imm \in BranchImms}
    \cup {Inst("JAL", 3, 0, 0, imm) : imm \in {4, 8}}
    \cup {Inst("JALR", rd, 1, 0, imm) : rd \in {0, 1, 3}, imm \in JalrImms}
    \cup {Inst(op, 3, 1, 0, imm) : op \in LOps, imm \in MemImms}
    \cup {Inst(op, 0, 1, 2, imm) : op \in SOps, imm \in MemImms}

\* a fresh machine with ApplyData loaded at 0, then x1, x2 and pc set
InitApply ==
    /\ \E a \in ApplyBase, b \in ApplyArg, p \in ApplyPcs :
           machine = [set_register(
                          set_register(load(with_mem(MemCap), ApplyData, 0), 1, a),
                          2, b)
                      EXCEPT !.pc = p]
    /\ overflow_checks \in BOOLEAN
    /\ HarnessInit
    /\ VMIdle
    /\ prev = machine
    /\ sx = NoSx
    /\ dec = NoDec
    /\ startup = NoStartup

\* state.apply(&inst), once
ApplyOnce(inst) ==
    /\ nops = 0
    /\ machine' = apply(machine, inst, overflow_checks)
    /\ VMDone([NoOp EXCEPT !.op = "apply", !.inst = inst])

NextApply == \E inst \in ApplyInsts : ApplyOnce(inst)

SpecApply == InitApply /\ [][NextApply]_vars

\* ------------------------------------------------------------------------
\* Properties of one apply
\* ------------------------------------------------------------------------

Applied(ops) == last.op = "apply" /\ last.inst.op \in ops

\* the condition of a branch on the values a of rs1 and b of rs2
BranchHolds(op, a, b) ==
    CASE op = "BEQ" -> a = b
      [] op = "BNE" -> a # b
      [] op = "BLT" -> a < b
      [] op = "BGE" -> a >= b
      [] op = "BLTU" -> LtU(a, b)
      [] op = "BGEU" -> ~LtU(a, b)

\* C21: apply of a branch changes only pc: by 2 * sign_extend(imm) when its
\* condition holds, by 4 otherwise; registers and memory are unchanged.
C21_BranchChangesOnlyPc ==
    Applied(BOps) =>
        LET inst  == last.inst
            taken == BranchHolds(inst.op, get_register(prev, inst.rs1),
                                 get_register(prev, inst.rs2))
        IN  /\ ~machine.panicked
            /\ machine.regs = prev.regs
            /\ machine.mem = prev.mem
            /\ machine.pc = prev.pc + (IF taken
                                          THEN 2 * TwosComplement(inst.imm, 12)
                                          ELSE 4)

\* rs1 + sign_extend(imm) modulo 2^32 with bit 0 cleared, as a pattern
JalrTarget(a, imm) ==
    LET sum == AddWrap(a, TwosComplement(imm, 12)) IN sum - (sum % 2)

\* C22: apply of JALR{rd, rs1, imm} from pc = p writes p + 4 into rd and
\* leaves pc = (rs1 + sign_extend(imm)) with only bit 0 cleared, for every
\* 32-bit value of rs1. (pc is never negative in the code, so a target of
\* 2^31 or more, a negative pattern here, is not met either.)
C22_JalrTarget ==
    Applied({"JALR"}) =>
        LET inst == last.inst
        IN  /\ ~machine.panicked
            /\ inst.rd # 0 => get_register(machine, inst.rd) = prev.pc + 4
            /\ machine.pc = JalrTarget(get_register(prev, inst.rs1), inst.imm)

\* the bytes a load variant reads
LoadWidth(op) == IF op \in {"LB", "LBU"} THEN 1 ELSE IF op = "LW" THEN 4 ELSE 2

\* the bytes a..a+n-1 of rs1 + imm are inside mem (rs1 read as unsigned)
LoadInBounds(st, inst) ==
    /\ get_register(st, inst.rs1) >= 0
    /\ get_register(st, inst.rs1) < Capacity(st)
    /\ (get_register(st, inst.rs1) + inst.imm) + (LoadWidth(inst.op) - 1)
           < Capacity(st)

\* what the variant must leave in rd: the bytes from mem[a] most significant
\* first, LB and LH with bits 8..31 / 16..31 equal to the value's top bit
LoadedValue(st, inst) ==
    LET a == get_register(st, inst.rs1) + inst.imm
        h == (st.mem[a] * 256) + st.mem[a + 1]
    IN  CASE inst.op = "LBU" -> st.mem[a]
          [] inst.op = "LB" -> IF st.mem[a] >= 128 THEN st.mem[a] - 256
                                                   ELSE st.mem[a]
          [] inst.op = "LHU" -> h
          [] inst.op = "LH" -> IF h >= 32768 THEN h - 65536 ELSE h
          [] inst.op = "LW" -> U32(h, (st.mem[a + 2] * 256) + st.mem[a + 3])

LoadOf == ("SB" :> "LB") @@ ("SH" :> "LH") @@ ("SW" :> "LW")

\* C24: a store and the load with the same rs1 and imm compute the same
\* effective address with the same wrap-around: from the same state the
\* store succeeds exactly when the load does.
C24_StoreLoadSameAddress ==
    Applied(SOps) =>
        LET inst == last.inst
            ld   == Inst(LoadOf[inst.op], 3, inst.rs1, 0, inst.imm)
        IN  machine.panicked = apply(prev, ld, overflow_checks).panicked

\* r is a shifted by n (0..31) bit positions: kind "left" and "logical" fill
\* with zeros, "arithmetic" fills with bit 31 of a
IsShift(kind, r, a, n) ==
    \A i \in 0..31 :
        Bit(r, i) =
            IF kind = "left"
            THEN (IF i >= n THEN Bit(a, i - n) ELSE 0)
            ELSE IF i + n <= 31 THEN Bit(a, i + n)
            ELSE IF kind = "arithmetic" THEN Bit(a, 31)
            ELSE 0

ShiftKind ==
    ("SLLI" :> "left") @@ ("SRLI" :> "logical") @@ ("SRAI" :> "arithmetic")
    @@ ("SLL" :> "left") @@ ("SRL" :> "logical") @@ ("SRA" :> "arithmetic")

\* C25: SLLI, SRLI and SRAI shift rs1 by the low 5 bits of the immediate
\* field, whatever its bits 5..11 are, and rd receives the whole 32-bit
\* shifted value (zeros shifted in for SLLI and SRLI, bit 31 for SRAI).
C25_ShiftImmediate ==
    Applied(ShiftOps) =>
        /\ ~machine.panicked
        /\ IsShift(ShiftKind[last.inst.op], get_register(machine, last.inst.rd),
                   get_register(prev, last.inst.rs1), last.inst.imm % 32)

\* a < b for the unsigned readings of two patterns
UnsignedLess(a, b) ==
    \/ Bit(a, 31) < Bit(b, 31)
    \/ Bit(a, 31) = Bit(b, 31) /\ a < b

\* C26: SLT writes 1 to rd exactly when rs1 < rs2 as signed values and SLTU
\* exactly when rs1 < rs2 as unsigned values, otherwise 0; for shift amounts
\* 0..31 SRA shifts in copies of bit 31 of rs1 and SRL shifts in zeros.
C26_CompareAndShiftRight ==
    LET inst == last.inst
        a    == get_register(prev, inst.rs1)
        b    == get_register(prev, inst.rs2)
        r    == get_register(machine, inst.rd)
    IN  /\ Applied({"SLT"}) =>
               ~machine.panicked /\ r = (IF a < b THEN 1 ELSE 0)
        /\ Applied({"SLTU"}) =>
               ~machine.panicked /\ r = (IF UnsignedLess(a, b) THEN 1 ELSE 0)
        /\ (Applied({"SRL", "SRA"}) /\ b \in 0..31) =>
               ~machine.panicked /\ IsShift(ShiftKind[inst.op], r, a, b)

\* SRA of 0x80000000 by 1 has left 0xC0000000 in x3
C26_Witness ==
    /\ Applied({"SRA"})
    /\ get_register(prev, 1) = MinI32
    /\ get_register(prev, 2) = 1
    /\ machine.regs[3] = U32(49152, 0)

\* ------------------------------------------------------------------------
\* Register indexes
\* ------------------------------------------------------------------------

\* C27: every instruction interpret_bytes returns has rd, rs1 and rs2 in
\* 0..31, so the tick of a fetched word never faults on a register index.
C27_RegisterFieldsInRange ==
    dec.done =>
        /\ dec.inst.rd \in 0..31
        /\ dec.inst.rs1 \in 0..31
        /\ dec.inst.rs2 \in 0..31
        /\ machine.panicked => RegInRange(dec.inst.rs1)

\* C28: when JALR's rd and rs1 name the same register (not x0), the jump
\* target comes from the value the register held before the instruction: pc
\* ends where the same JALR with another rd leaves it from the same state.
C28_JalrSameRegister ==
    (/\ Applied({"JALR"})
     /\ last.inst.rd = last.inst.rs1
     /\ last.inst.rd # 0) =>
        /\ ~machine.panicked
        /\ machine.pc = apply(prev, [last.inst EXCEPT !.rd = 3],
                              overflow_checks).pc

\* ------------------------------------------------------------------------
\* Arithmetic
\* ------------------------------------------------------------------------

\* what ADD, SUB, ADDI, AUIPC and the link write of JAL and JALR must leave
\* in rd, modulo 2^32
WrappedResult(st, inst) ==
    LET a == get_register(st, inst.rs1)
        b == get_register(st, inst.rs2)
    IN  CASE inst.op = "ADD" -> AddWrap(a, b)
          [] inst.op = "SUB" -> SubWrap(a, b)
          [] inst.op = "ADDI" -> AddWrap(a, TwosComplement(inst.imm, 12))
          [] inst.op = "AUIPC" -> AddWrap(st.pc, Shl(inst.imm, 12))
          [] inst.op \in {"JAL", "JALR"} -> AddWrap(st.pc, 4)

\* C29: apply never aborts on arithmetic: ADD, SUB, ADDI, AUIPC and the link
\* write of JAL and JALR leave their result modulo 2^32 in rd, and SLL, SRL
\* and SRA with rs2 >= 32 complete and shift by rs2 mod 32.
C29_ArithmeticWraps ==
    LET inst == last.inst
        b    == get_register(prev, inst.rs2)
    IN  /\ (Applied({"ADD", "SUB", "ADDI", "AUIPC", "JAL", "JALR"})
              /\ inst.rd # 0) =>
               /\ ~machine.panicked
               /\ get_register(machine, inst.rd) = WrappedResult(prev, inst)
        /\ (Applied({"SLL", "SRL", "SRA"}) /\ ~(b \in 0..31)) =>
               /\ ~machine.panicked
               /\ IsShift(ShiftKind[inst.op], get_register(machine, inst.rd),
                          get_register(prev, inst.rs1), b % 32)

\* ------------------------------------------------------------------------
\* run_tui's start-up (main.rs 31-36): ArchState::new(), then one load for
\* each (bytes, offset) pair of to_load, then the execution thread is spawned
\* ------------------------------------------------------------------------

\* ArchState::new(): with_mem(2_usize.pow(16))
ArchState_new == with_mem(Pow2(16))

\* the first vector main hands to run_tui (main.rs 17-21)
MainProgram ==
    <<62, 128, 0, 147, 125, 0, 129, 19, 193, 129, 1, 147,
      131, 1, 130, 19, 62, 130, 2, 147, 0, 1, 3, 23,
      254, 195, 3, 19, 0, 67, 3, 19, 0, 3, 35, 131>>

\* the second one: de ad be ef
MainData == <<222, 173, 190, 239>>

Pair(bytes, offset) == [bytes |-> bytes, offset |-> offset]

\* main's argument to run_tui: the program at 0, the data at 0x10004
MainToLoad == <<Pair(MainProgram, 0), Pair(MainData, 65540)>>

\* pairs a caller of run_tui may pass: main's two, the data against the end
\* of memory, nothing at the end, and a word at 4
LoadPairs ==
    {Pair(MainProgram, 0), Pair(MainData, 65540), Pair(MainData, 65532),
     Pair(MainData, 65533), Pair(<<>>, 65536), Pair(word_bytes(AddiWord), 4)}

\* values of to_load: up to two pairs
ToLoadLists ==
    {<<>>} \cup {<<p>> : p \in LoadPairs}
           \cup {<<p, q>> : p \in LoadPairs, q \in LoadPairs}

MainIdle ==
    UNCHANGED <<overflow_checks, hvars, vmvars, sx, dec, ordvars>>

\* one pass of `for data in to_load { state.load(data.0, data.1); }`; a panic
\* in load unwinds main, and nothing of run_tui runs after it
MainLoad ==
    /\ ~startup.spawned
    /\ ~machine.panicked
    /\ startup.loaded < Len(startup.to_load)
    /\ LET data == startup.to_load[startup.loaded + 1]
       IN  machine' = load(machine, data.bytes, data.offset)
    /\ startup' = [startup EXCEPT !.loaded = @ + 1]
    /\ MainIdle

\* the loop is over: the GUI and the channels are made and thread::spawn runs
MainSpawn ==
    /\ ~startup.spawned
    /\ ~machine.panicked
    /\ startup.loaded = Len(startup.to_load)
    /\ startup' = [startup EXCEPT !.spawned = TRUE]
    /\ UNCHANGED machine
    /\ MainIdle

InitMain ==
    /\ machine = ArchState_new
    /\ startup \in {[NoStartup EXCEPT !.to_load = l] : l \in ToLoadLists}
    /\ overflow_checks \in BOOLEAN
    /\ HarnessInit
    /\ VMIdle
    /\ prev = with_mem(0)
    /\ sx = NoSx
    /\ dec = NoDec

NextMain == MainLoad \/ MainSpawn

SpecMain == InitMain /\ [][NextMain]_vars

\* C30: every (bytes, offset) pair main passes to run_tui satisfies
\* offset + len(bytes) <= 65536, the capacity of ArchState::new(), so each
\* start-up load completes without an out-of-bounds access.
C30_StartupLoadsFit ==
    startup.to_load = MainToLoad =>
        /\ ~machine.panicked
        /\ \A i \in 1..Len(startup.to_load) :
               startup.to_load[i].offset + Len(startup.to_load[i].bytes)
                   <= Capacity(machine)
=============================================================================
